---- MODULE Spec2Model ----
(***************************************************************************)
(* The cancellable HTTP client (class Http) of the renderer: the request   *)
(* identifier counter, the registry of cancellation sources, the promise   *)
(* chain of request() and dispose().                                       *)
(***************************************************************************)
EXTENDS Integers, Sequences, FiniteSets, TLC

(* ----------------------------- bounds --------------------------------- *)
\* total number of request/get/post calls made on all instances
MaxCalls == 2
\* the longest string kept in the state or the storage of useLocalStorage
MaxLen == 3
\* the most state updates queued between two renders
MaxQueue == 2

\* the Http instances
Clients == {1, 2}

(* --------------------------- JS values -------------------------------- *)
Undefined == [t |-> "undefined"]
Null == [t |-> "null"]
Str(s) == [t |-> "string", s |-> s]
Num(n) == [t |-> "number", n |-> n]
Arr == [t |-> "array"]
\* a plain object read through its result and data properties; a property
\* the object does not have reads as undefined
Obj(result, data) == [t |-> "object", result |-> result, data |-> data]

\* typeof
TypeOf(v) ==
  IF v.t \in {"undefined", "string", "number"} THEN v.t ELSE "object"

\* the outcome of evaluating an expression or running a handler
Return(v) == [threw |-> FALSE, value |-> v]
Throw(e) == [threw |-> TRUE, value |-> e]

TypeError == [t |-> "TypeError"]

\* obj.result: a property read throws on null and undefined
GetResult(obj) ==
  IF obj.t \in {"null", "undefined"} THEN Throw(TypeError)
  ELSE IF obj.t = "object" THEN Return(obj.result)
  ELSE Return(Undefined)

(* ----------------------------- errors --------------------------------- *)
\* "请求错误"
MsgRequestError == "request error"
\* "请求被取消"
MsgCancelled == "request cancelled"

HttpError(message, code) == [t |-> "HttpError", message |-> message, code |-> code]

\* what the transport rejects with when the token was cancelled
Cancel(message) == [t |-> "Cancel", message |-> message]
\* response is Undefined when no response was received
AxiosError(message, response) ==
  [t |-> "AxiosError", message |-> message, response |-> response]
ErrResponse(statusText) == [t |-> "response", statusText |-> statusText]

\* if (axios.isCancel) instead of if (axios.isCancel(err))
isCancelAlways(err) == TRUE
isCancel(err) == err.t = "Cancel"
isAxiosError(err) == err.t = "AxiosError"

(* ------------------------ cancellation tokens -------------------------- *)
\* a token is named by who created its source: an Http instance (owner = the
\* client, n = the requestID it was created for) or the caller (owner = 0)
\* one pool of sources for all instances
TokenPooled(owner, n) == [owner |-> 1, n |-> n]

Token(owner, n) == [owner |-> owner, n |-> n]
\* the token of the source the caller creates on its own
ExtTokens == {Token(0, 1)}

(* ------------------------ transport outcomes --------------------------- *)
Bodies ==
  { Str("raw"), Arr, Null,
    Obj(Undefined, Str("X")),
    Obj(Str("7"), Null),
    Obj(Num(-1), Str("X")),
    Obj(Num(-1), Null),
    Obj(Num(7), Null),
    Obj(Num(0), Str("X")) }

TransportErrors ==
  { AxiosError("Request failed", ErrResponse("Not Found")),
    AxiosError("Network Error", Undefined),
    AxiosError("Request failed", ErrResponse("")),
    Str("boom") }

\* dispose(message?): "" stands for a call without message
Messages == {"", "reason"}
Methods == {"GET", "POST"}
Url == "/files"

(* ------------------------- request options ----------------------------- *)
\* a field an options object does not have
Absent == [t |-> "absent"]

\* AxiosRequestConfig objects the caller passes
OptionValues ==
  [ method : {Absent, Str("DELETE")},
    timeout : {Absent, Num(5000)},
    cancelToken : {Absent} \cup ExtTokens ]

\* the options object a caller keeps and passes to several calls: {}
EmptyOptions == [method |-> Absent, timeout |-> Absent, cancelToken |-> Absent]

\* the options objects the caller keeps and passes again
SharedRefs == {1}

DefaultTimeout == 1000 * 60

\* { method: method, url: url, timeout: 1000 * 60, ...options }
RequestConfig(method, url, options) ==
  [ method |-> IF options.method # Absent THEN options.method ELSE Str(method),
    url |-> url,
    timeout |-> IF options.timeout # Absent THEN options.timeout
                ELSE Num(DefaultTimeout),
    cancelToken |-> options.cancelToken ]

(* ------------------------------ handlers -------------------------------- *)
isResponseObject(obj) ==
  IF TypeOf(obj) # "object" THEN Return(FALSE)
  ELSE LET r == GetResult(obj)
       IN IF r.threw THEN r ELSE Return(TypeOf(r.value) = "number")

\* what the promise returned by a handler settles as
Resolved(v) == [ok |-> TRUE, value |-> v]
Rejected(e) == [ok |-> FALSE, value |-> e]

\* resolves with resp.data instead of resp.data.data
OnFulfilledWhole(data) ==
  LET isResp == isResponseObject(data)
  IN IF isResp.threw THEN Rejected(isResp.value)
     ELSE IF isResp.value
          THEN IF data.result = Num(-1)
               THEN Resolved(data)
               ELSE Rejected(HttpError(MsgRequestError, data.result))
          ELSE Resolved(data)

\* the .then handler of request(), after the registry delete
OnFulfilled(data) ==
  LET isResp == isResponseObject(data)
  IN IF isResp.threw THEN Rejected(isResp.value)
     ELSE IF isResp.value
          THEN IF data.result = Num(-1)
               THEN Resolved(data.data)
               ELSE Rejected(HttpError(MsgRequestError, data.result))
          ELSE Resolved(data)

\* err.response?.statusText ?? err.message: an empty status text is kept
ErrorTextNullish(err) ==
  IF err.response # Undefined THEN err.response.statusText ELSE err.message

\* err.response?.statusText || err.message
ErrorText(err) ==
  IF err.response # Undefined /\ err.response.statusText # ""
  THEN err.response.statusText
  ELSE err.message

\* the .catch handler of request(), after the registry delete
OnRejected(err) ==
  IF isCancel(err) THEN Rejected(HttpError(MsgCancelled, Undefined))
  ELSE IF isAxiosError(err) THEN Rejected(HttpError(ErrorText(err), Undefined))
  ELSE Rejected(err)

(* ------------------------------ Map ------------------------------------- *)
EmptyMap == [k \in {} |-> Absent]
\* the source is created and never put into the map
MapSetNone(m, k, v) == m
MapSet(m, k, v) == [x \in DOMAIN m \cup {k} |-> IF x = k THEN v ELSE m[x]]
MapDelete(m, k) == [x \in DOMAIN m \ {k} |-> m[x]]

(* ------------------------------- state ---------------------------------- *)
VARIABLES
  currentId,    \* currentId[c]: Http.currentId of instance c
  requestMap,   \* requestMap[c]: Http.requestMap, requestID -> source
  requests,     \* requests[c]: the calls of request() on c, in call order
  heap,         \* heap[r]: the options object the caller keeps under r
  cancelReason, \* token -> message, for the tokens cancel() was called on
  lastOp,       \* the step taken last, with what it handed over
  hook,         \* the component that uses useHttp or useApi
  ls            \* the component that uses useLocalStorage, and the storage

vars == <<currentId, requestMap, requests, heap, cancelReason, lastOp, hook, ls>>

NoConfig == [method |-> Absent, url |-> "", timeout |-> Absent, cancelToken |-> Absent]
Pending == [t |-> "pending"]
\* a call on an instance: options as the caller passed them, config what the
\* call handed to the transport
Op(name, c, id, options, config) ==
  [name |-> name, c |-> c, id |-> id, options |-> options, config |-> config,
   resp |-> Pending, value |-> Pending]
\* a handler of request id of c ran on resp and settled its promise as value
Settled(name, c, id, resp, value) ==
  [name |-> name, c |-> c, id |-> id, options |-> EmptyOptions, config |-> NoConfig,
   resp |-> resp, value |-> value]
\* the transport settled the promise of http.request()
Task == Op("task", 0, 0, EmptyOptions, NoConfig)

\* no component rendered yet
NoHook ==
  [use |-> "none", phase |-> "initial", client |-> 0, made |-> 0,
   immediately |-> FALSE, fresh |-> FALSE, options |-> 0, callback |-> 0,
   loading |-> FALSE, data |-> Null, err |-> Null, dirty |-> FALSE,
   pc |-> "idle", auto |-> 0]

\* strings are sequences of characters; item is what localStorage holds
\* under the key
NoStorage ==
  [phase |-> "initial", item |-> [present |-> FALSE, s |-> <<>>],
   value |-> <<>>, seen |-> <<>>, queue |-> <<>>, writer |-> "none"]

\* new Http(), for every instance; no component is mounted
Init ==
  /\ currentId = [c \in Clients |-> 0]
  /\ requestMap = [c \in Clients |-> EmptyMap]
  /\ requests = [c \in Clients |-> <<>>]
  /\ heap = [r \in SharedRefs |-> EmptyOptions]
  /\ cancelReason = EmptyMap
  /\ lastOp = Op("new", 0, 0, EmptyOptions, NoConfig)
  /\ hook = NoHook
  /\ ls = NoStorage

RECURSIVE CallsOf(_)
CallsOf(C) ==
  IF C = {} THEN 0
  ELSE LET c == CHOOSE x \in C : TRUE IN Len(requests[c]) + CallsOf(C \ {c})
TotalCalls == CallsOf(Clients)

\* source.cancel(message): the first cancel of a token fixes its reason
CancelAll(reasons, tokens, message) ==
  [tok \in DOMAIN reasons \cup tokens |->
     IF tok \in DOMAIN reasons THEN reasons[tok] ELSE message]

\* only the first entry is cancelled
SourcesFirst(m) ==
  {m[k] : k \in {x \in DOMAIN m : \A y \in DOMAIN m : x <= y}}

\* the sources dispose() iterates over
Sources(m) == {m[k] : k \in DOMAIN m}

(* ------------------------------ Http ------------------------------------ *)
\* the counter stops at 1
NextRequestIDStuck(cur) == IF cur < 1 THEN cur + 1 ELSE cur

\* this.currentId++; const requestID = this.currentId
NextRequestID(cur) == cur + 1

\* a new source is made whatever the options carry
SuppliedNever(options) == FALSE

\* options.cancelToken ? ... : ...
Supplied(options) == options.cancelToken # Absent

\* request(method, url, options); ref names the kept options object that
\* is passed, 0 when options is an object made for this call
Request(c, name, method, options, ref) ==
  /\ TotalCalls < MaxCalls
  /\ LET requestID == NextRequestID(currentId[c])
         supplied == Supplied(options)
         token == IF supplied THEN options.cancelToken ELSE Token(c, requestID)
         assigned == [options EXCEPT !.cancelToken = token]
     IN /\ currentId' = [currentId EXCEPT ![c] = requestID]
        /\ requestMap' = IF supplied THEN requestMap
                         ELSE [requestMap EXCEPT ![c] = MapSet(@, requestID, token)]
        /\ heap' = IF ref \in SharedRefs THEN [heap EXCEPT ![ref] = assigned] ELSE heap
        /\ requests' = [requests EXCEPT ![c] =
                          Append(@, [id |-> requestID, token |-> token,
                                     pc |-> "inflight", resp |-> Pending,
                                     value |-> Pending, disposed |-> FALSE])]
        /\ lastOp' = Op(name, c, requestID, options,
                        RequestConfig(method, Url, assigned))
  /\ UNCHANGED cancelReason

\* the options a call is made with: the kept object ref, or literal when
\* ref is 0
Passed(ref, literal) == IF ref \in SharedRefs THEN heap[ref] ELSE literal

RequestCall(c, method, ref, literal) ==
  Request(c, "request", method, Passed(ref, literal), ref)

Get(c, ref, literal) ==
  Request(c, "get", "GET", Passed(ref, literal), ref)

Post(c, ref, literal) ==
  Request(c, "post", "POST", Passed(ref, literal), ref)

\* the promise request() returned has not settled
Outstanding(r) == r.pc \in {"inflight", "fulfilled", "failed"}

\* r.disposed remembers that dispose() was called on the instance while the
\* transport call of r was in flight
Disposed(r) == IF r.pc = "inflight" THEN [r EXCEPT !.disposed = TRUE] ELSE r

\* dispose() also clears the map
DisposeAndClear(c, message) ==
  /\ cancelReason' = CancelAll(cancelReason, Sources(requestMap[c]), message)
  /\ requests' = [requests EXCEPT ![c] = [i \in DOMAIN @ |-> Disposed(@[i])]]
  /\ requestMap' = [requestMap EXCEPT ![c] = EmptyMap]
  /\ lastOp' = Op("dispose", c, 0, EmptyOptions, NoConfig)
  /\ UNCHANGED <<currentId, heap>>

Dispose(c, message) ==
  /\ cancelReason' = CancelAll(cancelReason, Sources(requestMap[c]), message)
  /\ requests' = [requests EXCEPT ![c] = [i \in DOMAIN @ |-> Disposed(@[i])]]
  /\ lastOp' = Op("dispose", c, 0, EmptyOptions, NoConfig)
  /\ UNCHANGED <<currentId, requestMap, heap>>

\* the caller cancels a token of its own
CallerCancel(tok, message) ==
  /\ cancelReason' = CancelAll(cancelReason, {tok}, message)
  /\ lastOp' = Op("cancel", 0, tok.n, EmptyOptions, NoConfig)
  /\ UNCHANGED <<currentId, requestMap, requests, heap>>

(* ----------------------------- transport -------------------------------- *)
IsCancelled(tok) == tok \in DOMAIN cancelReason

\* http.request() fulfils with a response
TransportFulfil(c, i) ==
  /\ requests[c][i].pc = "inflight"
  /\ ~IsCancelled(requests[c][i].token)
  /\ requests' = [requests EXCEPT ![c][i].pc = "fulfilled"]
  /\ lastOp' = Task
  /\ UNCHANGED <<currentId, requestMap, heap, cancelReason>>

\* http.request() rejects with err: the Cancel of its token once that is
\* cancelled, a transport error otherwise
TransportReject(c, i, err) ==
  /\ requests[c][i].pc = "inflight"
  /\ IF IsCancelled(requests[c][i].token)
     THEN err = Cancel(cancelReason[requests[c][i].token])
     ELSE err.t # "Cancel"
  /\ requests' = [requests EXCEPT ![c][i].pc = "failed", ![c][i].resp = err,
                                  ![c][i].value = err]
  /\ lastOp' = Task
  /\ UNCHANGED <<currentId, requestMap, heap, cancelReason>>

(* ------------------------- the promise chain ---------------------------- *)
\* .then((resp) => ...) with resp.data = body; a resolved result settles
\* the promise request() returned, a rejected one goes on to .catch
Then(c, i, body) ==
  LET r == requests[c][i]
      out == OnFulfilled(body)
  IN /\ r.pc = "fulfilled"
     /\ requestMap' = [requestMap EXCEPT ![c] = MapDelete(@, r.id)]
     /\ IF out.ok
        THEN /\ requests' = [requests EXCEPT ![c][i].pc = "resolved",
                                             ![c][i].disposed = FALSE]
             /\ lastOp' = Settled("resolved", c, r.id, body, out.value)
        ELSE /\ requests' = [requests EXCEPT ![c][i].pc = "failed",
                                             ![c][i].resp = body,
                                             ![c][i].value = out.value]
             /\ lastOp' = Settled("then", c, r.id, body, out.value)
     /\ UNCHANGED <<currentId, heap, cancelReason>>

\* the .catch handler without its delete
CatchKeepsEntry(c, i) ==
  LET r == requests[c][i]
      out == OnRejected(r.value)
  IN /\ r.pc = "failed"
     /\ requests' = [requests EXCEPT
                       ![c][i].pc = IF out.ok THEN "resolved" ELSE "rejected",
                       ![c][i].resp = Pending,
                       ![c][i].value = Pending,
                       ![c][i].disposed = FALSE]
     /\ lastOp' = Settled(IF out.ok THEN "resolved" ELSE "rejected",
                          c, r.id, r.resp, out.value)
     /\ UNCHANGED <<currentId, requestMap, heap, cancelReason>>

\* .catch(err => ...): settles the promise request() returned
Catch(c, i) ==
  LET r == requests[c][i]
      out == OnRejected(r.value)
  IN /\ r.pc = "failed"
     /\ requestMap' = [requestMap EXCEPT ![c] = MapDelete(@, r.id)]
     /\ requests' = [requests EXCEPT
                       ![c][i].pc = IF out.ok THEN "resolved" ELSE "rejected",
                       ![c][i].resp = Pending,
                       ![c][i].value = Pending,
                       ![c][i].disposed = FALSE]
     /\ lastOp' = Settled(IF out.ok THEN "resolved" ELSE "rejected",
                          c, r.id, r.resp, out.value)
     /\ UNCHANGED <<currentId, heap, cancelReason>>

Cancels == {Cancel(m) : m \in Messages}

\* the steps of a program that uses the instances C, passes the options O
\* and the kept objects R, cancels with the messages M, and whose server
\* answers with the bodies B and whose transport fails with the errors E
NextOn(C, O, R, M, B, E) ==
  \/ \E c \in C, method \in Methods, ref \in {0} \cup R, literal \in O :
       RequestCall(c, method, ref, literal)
  \/ \E c \in C, ref \in {0} \cup R, literal \in O : Get(c, ref, literal)
  \/ \E c \in C, ref \in {0} \cup R, literal \in O : Post(c, ref, literal)
  \/ \E c \in C, message \in M : Dispose(c, message)
  \/ \E tok \in ExtTokens, message \in M : CallerCancel(tok, message)
  \/ \E c \in C : \E i \in 1..Len(requests[c]) : TransportFulfil(c, i)
  \/ \E c \in C : \E i \in 1..Len(requests[c]), err \in E \cup Cancels :
       TransportReject(c, i, err)
  \/ \E c \in C : \E i \in 1..Len(requests[c]), body \in B : Then(c, i, body)
  \/ \E c \in C : \E i \in 1..Len(requests[c]) : Catch(c, i)

\* one body for each path through the .then handler, one error for each
\* path through the .catch handler
PathBodies == {Str("raw"), Null, Obj(Num(-1), Str("X")), Obj(Num(7), Null)}
PathErrors == {AxiosError("Request failed", ErrResponse("Not Found")), Str("boom")}

\* the options that differ in the cancellation token alone
TokenOptions == {o \in OptionValues : o.method = Absent /\ o.timeout = Absent}

\* one Http instance, every kind of call as to the token, every path
\* through the handlers
Next ==
  /\ NextOn({1}, TokenOptions, SharedRefs, {"reason"}, PathBodies, PathErrors)
  /\ UNCHANGED <<hook, ls>>

Spec == Init /\ [][Next]_vars

\* one Http instance, every response: calls without options of their own
NextResponses ==
  /\ NextOn({1}, {EmptyOptions}, {}, Messages, Bodies, TransportErrors)
  /\ UNCHANGED <<hook, ls>>

SpecResponses == Init /\ [][NextResponses]_vars

\* one Http instance, every options value
NextOptions ==
  /\ NextOn({1}, OptionValues, SharedRefs, {"reason"}, {Str("raw")}, {Str("boom")})
  /\ UNCHANGED <<hook, ls>>

SpecOptions == Init /\ [][NextOptions]_vars

\* two Http instances side by side, every kind of call as to the token
NextInstances ==
  /\ NextOn(Clients, TokenOptions, SharedRefs, {"reason"}, {Str("raw")}, {Str("boom")})
  /\ UNCHANGED <<hook, ls>>

SpecInstances == Init /\ [][NextInstances]_vars

(* ------------------------------ React ----------------------------------- *)
\* the message the hooks dispose with
MsgDestroyed == "component destroyed"

\* a hook without a dependency list: every render counts as a change
DepsChangedAlways(prev, next) == TRUE

\* the dependency lists of two renders differ in some element
DepsChanged(prev, next) == prev # next

\* the steps that settle the calls of the instances C
SettleOn(C, B, E) ==
  \/ \E c \in C : \E i \in 1..Len(requests[c]) : TransportFulfil(c, i)
  \/ \E c \in C : \E i \in 1..Len(requests[c]),
                   err \in E \cup Cancels \cup {Cancel(MsgDestroyed)} :
       TransportReject(c, i, err)
  \/ \E c \in C : \E i \in 1..Len(requests[c]), body \in B : Then(c, i, body)
  \/ \E c \in C : \E i \in 1..Len(requests[c]) : Catch(c, i)

(* ------------------------------ useHttp --------------------------------- *)
\* useMemo(() => new Http(), []): the instance of this render
UseMemoClient(h, deps) ==
  IF h.phase = "initial" \/ DepsChanged(deps, deps) THEN h.made + 1 ELSE h.client

\* the first render of a component that calls useHttp()
MountHttp ==
  /\ hook.phase = "initial"
  /\ LET client == UseMemoClient(hook, <<>>)
     IN /\ hook' = [hook EXCEPT !.use = "useHttp", !.phase = "mounted",
                                !.client = client, !.made = client]
        /\ lastOp' = Op("mount", client, 0, EmptyOptions, NoConfig)
  /\ UNCHANGED <<currentId, requestMap, requests, heap, cancelReason, ls>>

\* a later render: the effect has the dependency list [], its cleanup runs
\* when React finds the list changed
RenderHttp ==
  /\ hook.use = "useHttp" /\ hook.phase = "mounted"
  /\ LET client == UseMemoClient(hook, <<>>)
     IN /\ client \in Clients
        /\ hook' = [hook EXCEPT !.client = client, !.made = client]
        /\ IF DepsChanged(<<>>, <<>>)
           THEN Dispose(hook.client, MsgDestroyed)
           ELSE /\ lastOp' = Op("render", client, 0, EmptyOptions, NoConfig)
                /\ UNCHANGED <<currentId, requestMap, requests, heap, cancelReason>>
  /\ UNCHANGED ls

\* the component is removed: the cleanup of the effect runs
UnmountHttp ==
  /\ hook.use = "useHttp" /\ hook.phase = "mounted"
  /\ Dispose(hook.client, MsgDestroyed)
  /\ hook' = [hook EXCEPT !.phase = "unmounted"]
  /\ UNCHANGED ls

\* the transport and the handlers of the calls made on the client
SettleHttp ==
  /\ hook.use = "useHttp"
  /\ SettleOn({hook.client}, {Str("raw")}, {Str("boom")})
  /\ UNCHANGED <<hook, ls>>

\* a component that calls useHttp() and, while it is mounted, uses the
\* client it got
NextUseHttp ==
  \/ MountHttp
  \/ RenderHttp
  \/ UnmountHttp
  \/ /\ hook.use = "useHttp" /\ hook.phase = "mounted"
     /\ \/ \E method \in Methods, literal \in TokenOptions :
             RequestCall(hook.client, method, 0, literal)
        \/ \E literal \in TokenOptions : Get(hook.client, 0, literal)
        \/ \E literal \in TokenOptions : Post(hook.client, 0, literal)
        \/ Dispose(hook.client, "reason")
        \/ \E tok \in ExtTokens : CallerCancel(tok, "reason")
     /\ UNCHANGED <<hook, ls>>
  \/ SettleHttp

SpecUseHttp == Init /\ [][NextUseHttp]_vars

\* a transport call settles in the end (the timeout of the request, the
\* rejection of a cancelled token) and the handlers of a settled promise run
FairSpecUseHttp == SpecUseHttp /\ WF_vars(SettleHttp)

(* ------------------------------- useApi --------------------------------- *)
\* an object made in this render is not the object of the render before
NewIdentity(prev) == 1 - prev

\* the options argument of this render: the object the caller keeps, or the
\* default {} or a literal, which is made anew
OptionsOf(h) == IF h.fresh THEN NewIdentity(h.options) ELSE h.options

\* useCallback(() => {...}, [client, method, url, options])
UseCallback(h, client, options) ==
  IF DepsChanged(<<h.client, "GET", Url, h.options>>, <<client, "GET", Url, options>>)
  THEN NewIdentity(h.callback)
  ELSE h.callback

\* setLoading, setData, setError: nothing happens once the component is gone
SetState(h, loading, data, err) ==
  IF h.phase = "mounted"
  THEN [h EXCEPT !.loading = loading, !.data = data, !.err = err,
                 !.dirty = @ \/ <<h.loading, h.data, h.err>> # <<loading, data, err>>]
  ELSE h

\* memoizedRequestCallback() up to the call of client.request; the options
\* object of the render is heap[1]
Callback(h) ==
  /\ Request(h.client, "request", "GET", heap[1], 1)
  /\ hook' = SetState(h, TRUE, h.data, h.err)

\* the first render of a component that calls useApi("GET", url, options,
\* immediately)
MountApi(immediately, fresh) ==
  /\ hook.phase = "initial"
  /\ LET client == UseMemoClient(hook, <<>>)
     IN /\ hook' = [hook EXCEPT !.use = "useApi", !.phase = "mounted",
                                !.client = client, !.made = client,
                                !.immediately = immediately, !.fresh = fresh,
                                !.pc = "effect"]
        /\ lastOp' = Op("mount", client, 0, EmptyOptions, NoConfig)
  /\ UNCHANGED <<currentId, requestMap, requests, heap, cancelReason, ls>>

\* a later render, up to the end of the body of the hook: the effect is to
\* run again when its list [client, immediately, memoizedRequestCallback]
\* changed
RenderApi ==
  /\ hook.use = "useApi" /\ hook.phase = "mounted" /\ hook.pc = "idle"
  /\ LET client == UseMemoClient(hook, <<>>)
         options == OptionsOf(hook)
         callback == UseCallback(hook, client, options)
         changed == DepsChanged(<<hook.client, hook.immediately, hook.callback>>,
                                <<client, hook.immediately, callback>>)
     IN /\ client \in Clients
        /\ hook' = [hook EXCEPT !.client = client, !.made = client,
                                !.options = options, !.callback = callback,
                                !.dirty = FALSE,
                                !.pc = IF changed THEN "cleanup" ELSE "idle"]
        /\ heap' = IF options # hook.options
                   THEN [heap EXCEPT ![1] = EmptyOptions]
                   ELSE heap
        /\ lastOp' = Op("render", client, 0, EmptyOptions, NoConfig)
  /\ UNCHANGED <<currentId, requestMap, requests, cancelReason, ls>>

\* the cleanup of the effect before the effect runs again
CleanupApi ==
  /\ hook.use = "useApi" /\ hook.pc = "cleanup"
  /\ Dispose(hook.client, MsgDestroyed)
  /\ hook' = [hook EXCEPT !.pc = "effect"]
  /\ UNCHANGED ls

\* the effect: if (immediately) memoizedRequestCallback()
EffectApi ==
  /\ hook.use = "useApi" /\ hook.pc = "effect"
  /\ IF hook.immediately
     THEN Callback([hook EXCEPT !.pc = "idle", !.auto = @ + 1])
     ELSE /\ hook' = [hook EXCEPT !.pc = "idle"]
          /\ lastOp' = Op("effect", hook.client, 0, EmptyOptions, NoConfig)
          /\ UNCHANGED <<currentId, requestMap, requests, heap, cancelReason>>
  /\ UNCHANGED ls

\* the component calls the fourth element of the result
InvokeApi ==
  /\ hook.use = "useApi" /\ hook.phase = "mounted" /\ hook.pc = "idle"
  /\ Callback(hook)
  /\ UNCHANGED ls

\* the component calls the fifth element of the result,
\* () => client.dispose.bind(client): bind makes a function and the call
\* returns it
CancelApi(message) ==
  /\ hook.use = "useApi" /\ hook.phase = "mounted" /\ hook.pc = "idle"
  /\ lastOp' = Op("cancel5", hook.client, 0, EmptyOptions, NoConfig)
  /\ UNCHANGED <<currentId, requestMap, requests, heap, cancelReason, hook, ls>>

\* the component is removed: the cleanup of the effect runs
UnmountApi ==
  /\ hook.use = "useApi" /\ hook.phase = "mounted" /\ hook.pc = "idle"
  /\ Dispose(hook.client, MsgDestroyed)
  /\ hook' = [hook EXCEPT !.phase = "unmounted"]
  /\ UNCHANGED ls

\* the transport settles call i
TransportApi(i, err) ==
  /\ hook.use = "useApi" /\ hook.pc = "idle"
  /\ \/ TransportFulfil(hook.client, i)
     \/ TransportReject(hook.client, i, err)
  /\ UNCHANGED <<hook, ls>>

\* .then of request() and, when it resolves, the .then of the callback
ThenApi(i, body) ==
  /\ hook.use = "useApi" /\ hook.pc = "idle"
  /\ Then(hook.client, i, body)
  /\ LET out == OnFulfilled(body)
     IN hook' = IF out.ok THEN SetState(hook, FALSE, out.value, Null) ELSE hook
  /\ UNCHANGED ls

\* .catch of request() and the handler of the callback that takes its result
CatchApi(i) ==
  /\ hook.use = "useApi" /\ hook.pc = "idle"
  /\ Catch(hook.client, i)
  /\ LET out == OnRejected(requests[hook.client][i].value)
     IN hook' = IF out.ok
                THEN SetState(hook, FALSE, out.value, Null)
                ELSE SetState(hook, FALSE, Null, out.value)
  /\ UNCHANGED ls

\* a component that calls useApi and uses what it returns
NextUseApi ==
  \/ \E immediately \in BOOLEAN, fresh \in BOOLEAN : MountApi(immediately, fresh)
  \/ RenderApi
  \/ CleanupApi
  \/ EffectApi
  \/ InvokeApi
  \/ CancelApi("reason")
  \/ UnmountApi
  \/ /\ hook.use = "useApi"
     /\ \E i \in 1..Len(requests[hook.client]) :
          \/ \E err \in {Str("boom")} \cup Cancels \cup {Cancel(MsgDestroyed)} :
               TransportApi(i, err)
          \/ ThenApi(i, Str("raw"))
          \/ CatchApi(i)

SpecUseApi == Init /\ [][NextUseApi]_vars

(* --------------------------- useLocalStorage ---------------------------- *)
\* what the key may hold when the component is mounted or after another
\* window wrote it
Items ==
  { [present |-> FALSE, s |-> <<>>], [present |-> TRUE, s |-> <<>>],
    [present |-> TRUE, s |-> <<"a">>] }
Defaults == {<<>>, <<"d">>}

\* the arguments of the setter: a string or an updater function
Plain(str) == [t |-> "string", s |-> str]
Updater(f) == [t |-> "function", f |-> f]
NewVals == {Plain(<<>>), Plain(<<"b">>), Updater("append"), Updater("clear")}

\* newVal(prev) for the two updaters: prev + "x", and ""
Call(f, prev) == IF f = "append" THEN Append(prev, "x") ELSE <<>>

\* a || b for strings, a possibly null
OrElse(a, b) == IF a.present /\ a.s # <<>> THEN a.s ELSE b

\* React applies the queued updates in order to the state
RECURSIVE Reduce(_, _)
Reduce(queue, state) ==
  IF queue = <<>> THEN state
  ELSE Reduce(Tail(queue),
              IF Head(queue).t = "function"
              THEN Call(Head(queue).f, state)
              ELSE Head(queue).s)

\* useState(localStorage.getItem(key) || defaultValue) in the first render
MountStorage(item, defaultValue) ==
  /\ ls.phase = "initial"
  /\ ls' = [ls EXCEPT !.phase = "mounted", !.item = item,
                      !.value = OrElse(item, defaultValue),
                      !.seen = OrElse(item, defaultValue)]
  /\ UNCHANGED <<currentId, requestMap, requests, heap, cancelReason, lastOp, hook>>

\* setItem(newVal): value is the state the last render saw
SetItem(newVal) ==
  /\ ls.phase = "mounted" /\ Len(ls.queue) < MaxQueue
  /\ LET queue == Append(ls.queue, newVal)
         stored == IF newVal.t = "function" THEN Call(newVal.f, ls.seen)
                   ELSE newVal.s
     IN /\ Len(Reduce(queue, ls.value)) <= MaxLen /\ Len(stored) <= MaxLen
        /\ ls' = [ls EXCEPT !.queue = queue,
                            !.item = [present |-> TRUE, s |-> stored],
                            !.writer = "setItem"]
  /\ UNCHANGED <<currentId, requestMap, requests, heap, cancelReason, lastOp, hook>>

\* another window wrote or removed the key: onStorageChange(event) with
\* event.key = key
StorageEvent(item) ==
  /\ ls.phase = "mounted" /\ Len(ls.queue) < MaxQueue
  /\ ls' = [ls EXCEPT !.queue = Append(@, Plain(OrElse(item, <<>>))),
                      !.item = item, !.writer = "event"]
  /\ UNCHANGED <<currentId, requestMap, requests, heap, cancelReason, lastOp, hook>>

\* the next render: the queued updates are applied, setItem sees the result
RenderStorage ==
  /\ ls.phase = "mounted"
  /\ ls' = [ls EXCEPT !.value = Reduce(ls.queue, ls.value),
                      !.seen = Reduce(ls.queue, ls.value),
                      !.queue = <<>>]
  /\ UNCHANGED <<currentId, requestMap, requests, heap, cancelReason, lastOp, hook>>

NextStorage ==
  \/ \E item \in Items, defaultValue \in Defaults : MountStorage(item, defaultValue)
  \/ \E newVal \in NewVals : SetItem(newVal)
  \/ \E item \in Items : StorageEvent(item)
  \/ RenderStorage

SpecStorage == Init /\ [][NextStorage]_vars

(* ------------------------------- claims --------------------------------- *)
\* the steps that hand a result of a handler of request() over
HandlerNames == {"resolved", "then", "rejected"}
CallNames == {"request", "get", "post"}
\* the step is a call of request/get/post on c
IsCallOn(c) == lastOp'.name \in CallNames /\ lastOp'.c = c /\ requests' # requests
\* the step is a dispose() on c
IsDisposeOn(c) == lastOp'.name = "dispose" /\ lastOp'.c = c
\* the step settles the promise request() returned for call i of c
Settles(c, i) == Outstanding(requests[c][i]) /\ ~Outstanding(requests'[c][i])
\* a body with a numeric result field
IsEnvelope(body) ==
  IF body.t = "object" THEN body.result.t = "number" ELSE FALSE
\* lastOp is a handler that ran for a transport success
OnSuccess == lastOp.name \in HandlerNames /\ lastOp.resp \in Bodies
CancellationError == HttpError(MsgCancelled, Undefined)

\* C1: on every instance the identifiers of the calls, in call order, start
\* at 1 and strictly increase (so they are pairwise distinct and none is used
\* again), whatever settled or was disposed in between.
C1_Identifiers ==
  \A c \in Clients :
    /\ Len(requests[c]) > 0 => requests[c][1].id = 1
    /\ \A i, j \in 1..Len(requests[c]) :
         i < j => requests[c][i].id < requests[c][j].id

\* two calls, the first registered, cancelled by dispose and settled before
\* the second was made
C1_Witness ==
  /\ Len(requests[1]) = 2
  /\ requests[1][1].pc = "rejected"
  /\ requests[1][1].token = Token(1, 1)
  /\ IsCancelled(Token(1, 1))
  /\ requests[1][2].id = 2
  /\ DOMAIN requestMap[1] = {2}

\* C2: the registry holds no entry for a request whose returned promise has
\* settled, by whatever path it settled.
C2_SettledNotRegistered ==
  \A c \in Clients : \A i \in 1..Len(requests[c]) :
    ~Outstanding(requests[c][i]) => requests[c][i].id \notin DOMAIN requestMap[c]

\* two registered requests, one resolved and one rejected by .catch
C2_Witness ==
  /\ Len(requests[1]) = 2
  /\ requests[1][1].token = Token(1, 1) /\ requests[1][2].token = Token(1, 2)
  /\ requests[1][1].pc = "resolved" /\ requests[1][2].pc = "rejected"
  /\ lastOp.name = "rejected" /\ lastOp.id = 2

\* dispose() with no request outstanding on the instance changes nothing
DisposeNoOp ==
  \A c \in Clients :
    IsDisposeOn(c) /\ (\A i \in 1..Len(requests[c]) : ~Outstanding(requests[c][i]))
      => UNCHANGED <<currentId, requestMap, requests, heap, cancelReason>>

\* the step rejects the promise of call i of c with a cancellation error
RejectsCancelled(c, i) ==
  /\ requests'[c][i].pc = "rejected"
  /\ lastOp'.name = "rejected" /\ lastOp'.c = c /\ lastOp'.id = requests[c][i].id
  /\ lastOp'.value = CancellationError

\* C3 as stated: every request that was outstanding (its transport call in
\* flight) when dispose() was called on its instance rejects with a
\* cancellation error (an HttpError without code), and dispose() with none
\* outstanding is a no-op.
C3_Original ==
  [][ /\ \A c \in Clients : \A i \in 1..Len(requests[c]) :
           requests[c][i].disposed /\ Settles(c, i) => RejectsCancelled(c, i)
      /\ DisposeNoOp ]_vars

\* C3 as amended: every request that was outstanding (its transport call in
\* flight) when dispose() was called on its instance and that holds a
\* registry entry rejects with a cancellation error (an HttpError without
\* code), and dispose() with none outstanding is a no-op.
C3_Amended ==
  [][ /\ \A c \in Clients : \A i \in 1..Len(requests[c]) :
           /\ requests[c][i].disposed
           /\ requests[c][i].id \in DOMAIN requestMap[c]
           /\ Settles(c, i)
           => RejectsCancelled(c, i)
      /\ DisposeNoOp ]_vars

\* two registered requests were in flight when dispose() was called: one
\* has rejected with the cancellation error, the other is about to
C3_Witness ==
  /\ Len(requests[1]) = 2
  /\ requests[1][1].token = Token(1, 1) /\ requests[1][2].token = Token(1, 2)
  /\ lastOp.name = "rejected" /\ lastOp.id = 1
  /\ lastOp.resp \in Cancels /\ lastOp.value = CancellationError
  /\ requests[1][2].disposed
  /\ requests[1][2].pc = "failed" /\ requests[1][2].value \in Cancels

\* C4: a call whose options carry a token of the caller leaves the registry
\* as it was and advances only the counter, hands that token to the
\* transport, never has a registry entry, and no dispose() cancels that token.
C4_CallerToken ==
  /\ [](\A c \in Clients : \A i \in 1..Len(requests[c]) :
          requests[c][i].token \in ExtTokens
            => requests[c][i].id \notin DOMAIN requestMap[c])
  /\ [][ /\ \A c \in Clients :
              IsCallOn(c) /\ lastOp'.options.cancelToken \in ExtTokens
                => /\ requestMap' = requestMap
                   /\ currentId' = [currentId EXCEPT ![c] = currentId[c] + 1]
                   /\ lastOp'.config.cancelToken = lastOp'.options.cancelToken
                   /\ requests'[c][Len(requests'[c])].token = lastOp'.options.cancelToken
         /\ \A c \in Clients :
              IsDisposeOn(c)
                => \A tok \in ExtTokens :
                     (tok \in DOMAIN cancelReason') = (tok \in DOMAIN cancelReason) ]_vars

\* a request made with the caller's token is still in flight, its token not
\* cancelled, right after a dispose() that cancelled a registered request
C4_Witness ==
  /\ lastOp.name = "dispose"
  /\ Len(requests[1]) = 2
  /\ requests[1][1].token = Token(1, 1) /\ IsCancelled(Token(1, 1))
  /\ requests[1][2].token \in ExtTokens
  /\ requests[1][2].pc = "inflight" /\ requests[1][2].disposed
  /\ ~IsCancelled(requests[1][2].token)

\* the step removes the entry of a request whose promise it settles
RemovedOnSettle ==
  \A c \in Clients : \A i \in 1..Len(requests[c]) :
    Settles(c, i) => requests[c][i].id \notin DOMAIN requestMap'[c]

\* C5 as stated: every call of request inserts an entry for its new
\* identifier, whatever the options, and the entry is removed when the
\* request settles.
C5_Original ==
  [][ /\ \A c \in Clients :
           IsCallOn(c)
             => /\ lastOp'.id \notin DOMAIN requestMap[c]
                /\ DOMAIN requestMap'[c] = DOMAIN requestMap[c] \cup {lastOp'.id}
      /\ RemovedOnSettle ]_vars

\* C5 as amended: every call of request whose options carry no cancellation
\* token inserts an entry for its new identifier, holding the source of the
\* token it hands to the transport, and the entry is removed when the request
\* settles; a call whose options carry a token leaves the registry as it was.
C5_Amended ==
  [][ /\ \A c \in Clients :
           IsCallOn(c)
             => IF lastOp'.options.cancelToken = Absent
                THEN /\ lastOp'.id \notin DOMAIN requestMap[c]
                     /\ DOMAIN requestMap'[c] = DOMAIN requestMap[c] \cup {lastOp'.id}
                     /\ requestMap'[c][lastOp'.id] = lastOp'.config.cancelToken
                     /\ \A k \in DOMAIN requestMap[c] :
                          requestMap'[c][k] = requestMap[c][k]
                ELSE requestMap' = requestMap
      /\ RemovedOnSettle ]_vars

\* a call without token was registered and its entry is gone now that it has
\* resolved, while a call that passed the kept options again has no entry
C5_Witness ==
  /\ Len(requests[1]) = 2
  /\ requests[1][1].token = Token(1, 1) /\ requests[1][1].pc = "resolved"
  /\ requests[1][2].token = Token(1, 1) /\ requests[1][2].pc = "inflight"
  /\ requestMap[1] = EmptyMap

\* C6: the promise of a transport success with a body that has no numeric
\* result field settles resolved with that body unchanged.
C6_RawBody ==
  /\ lastOp.name \in {"resolved", "rejected"}
  /\ lastOp.resp \in Bodies
  /\ ~IsEnvelope(lastOp.resp)
  => lastOp.name = "resolved" /\ lastOp.value = lastOp.resp

\* C7: a transport success with an envelope whose result is not -1 rejects
\* with an HttpError whose code is that result, out of the .then handler and
\* unchanged out of the .catch handler.
C7_ApplicationError ==
  (OnSuccess /\ IsEnvelope(lastOp.resp)) =>
    (lastOp.resp.result # Num(-1)
       => /\ lastOp.name \in {"then", "rejected"}
          /\ lastOp.value = [t |-> "HttpError", message |-> MsgRequestError,
                             code |-> lastOp.resp.result])

\* the promise request() returned has rejected with code 7 for the body
\* {result: 7, data: null}
C7_Witness ==
  /\ lastOp.name = "rejected"
  /\ lastOp.resp = Obj(Num(7), Null)
  /\ lastOp.value.t = "HttpError" /\ lastOp.value.code = Num(7)

\* C8: a transport success with an envelope whose result is -1 resolves with
\* the data field of the envelope.
C8_EnvelopeData ==
  (OnSuccess /\ IsEnvelope(lastOp.resp)) =>
    (lastOp.resp.result = Num(-1)
       => lastOp.name = "resolved" /\ lastOp.value = lastOp.resp.data)

\* the promise has resolved with null for the body {result: -1, data: null}
C8_Witness ==
  /\ lastOp.name = "resolved"
  /\ lastOp.resp = Obj(Num(-1), Null)
  /\ lastOp.value = Null

\* C9: get dispatches with method GET and post with method POST whatever the
\* options, and the timeout is the caller's when the options have one and 60
\* seconds otherwise.
C9_FixedMethod ==
  /\ lastOp.name = "get" => lastOp.config.method = Str("GET")
  /\ lastOp.name = "post" => lastOp.config.method = Str("POST")
  /\ lastOp.name \in CallNames
       => lastOp.config.timeout =
            IF lastOp.options.timeout = Absent THEN Num(60000)
            ELSE lastOp.options.timeout

\* C10: dispose() leaves the registry and the counter as they were, and an
\* entry leaves the registry only in a handler of its own request, one entry
\* with each such step.
C10_DisposeFrame ==
  [][ /\ \A c \in Clients :
           IsDisposeOn(c) => requestMap' = requestMap /\ currentId' = currentId
      /\ \A c \in Clients : \A k \in DOMAIN requestMap[c] \ DOMAIN requestMap'[c] :
           /\ lastOp'.name \in HandlerNames /\ lastOp'.c = c /\ lastOp'.id = k
           /\ DOMAIN requestMap'[c] = DOMAIN requestMap[c] \ {k} ]_vars

\* right after a dispose() both cancelled requests still have their entries
C10_Witness ==
  /\ lastOp.name = "dispose"
  /\ DOMAIN requestMap[1] = {1, 2}
  /\ \A k \in {1, 2} : IsCancelled(requestMap[1][k])
  /\ \A i \in {1, 2} : requests[1][i].pc = "inflight"

\* C11: a rejection of the transport settles the promise in one of three
\* shapes: a Cancel as the cancellation HttpError without code, an axios
\* error as an HttpError without code whose message is the status text of
\* the response when there is a non-empty one and the message of the error
\* otherwise, anything else as the thrown value itself.
C11_Classification ==
  (lastOp.name = "rejected" /\ lastOp.resp \notin Bodies) =>
    IF lastOp.resp.t = "Cancel"
    THEN lastOp.value = [t |-> "HttpError", message |-> MsgCancelled,
                         code |-> Undefined]
    ELSE IF lastOp.resp.t = "AxiosError"
    THEN /\ lastOp.value.t = "HttpError"
         /\ lastOp.value.code = Undefined
         /\ lastOp.value.message =
              IF lastOp.resp.response = Undefined
              THEN lastOp.resp.message
              ELSE IF lastOp.resp.response.statusText = ""
                   THEN lastOp.resp.message
                   ELSE lastOp.resp.response.statusText
    ELSE lastOp.value = lastOp.resp

\* an axios error whose response has an empty status text has rejected with
\* the message of the error
C11_Witness ==
  /\ lastOp.name = "rejected"
  /\ lastOp.resp = AxiosError("Request failed", ErrResponse(""))
  /\ lastOp.value.message = "Request failed"

\* C15: a call that passes options without a token of the caller, also an
\* options object that was passed to an earlier call, hands the transport a
\* token of its own and is registered under its own identifier.
C15_SameOptions ==
  (lastOp.name \in CallNames /\ lastOp.options.cancelToken \notin ExtTokens) =>
    /\ lastOp.config.cancelToken = Token(lastOp.c, lastOp.id)
    /\ lastOp.id \in DOMAIN requestMap[lastOp.c]

\* C14: a call of request/get/post or a dispose() on one instance leaves
\* the registry and the counter of every other instance as they were and
\* cancels no source registered in another instance; the identifier a call
\* gets is one more than the number of calls made on its own instance.
C14_Isolated ==
  [][\A a \in Clients : \A b \in Clients \ {a} :
       (IsCallOn(a) \/ IsDisposeOn(a)) =>
         /\ requestMap'[b] = requestMap[b]
         /\ currentId'[b] = currentId[b]
         /\ \A k \in DOMAIN requestMap[b] :
              requestMap[b][k] \in DOMAIN cancelReason'
                => requestMap[b][k] \in DOMAIN cancelReason
         /\ IsCallOn(a) => lastOp'.id = Len(requests[a]) + 1]_vars

\* both instances held a registered request in flight when dispose() was
\* called on the first: its source is cancelled, the other's is not
C14_Witness ==
  /\ lastOp.name = "dispose" /\ lastOp.c = 1
  /\ Len(requests[1]) = 1 /\ Len(requests[2]) = 1
  /\ requests[1][1].pc = "inflight" /\ requests[2][1].pc = "inflight"
  /\ DOMAIN requestMap[1] = {1} /\ DOMAIN requestMap[2] = {1}
  /\ requestMap[1][1] \in DOMAIN cancelReason
  /\ requestMap[2][1] \notin DOMAIN cancelReason

\* C13: a component that calls useHttp() has one Http instance, the same
\* on every render; the hook calls dispose() in the step that removes the
\* component and in no other step, and that step cancels every registered
\* source; with no call made after the removal the registry of the client
\* becomes empty in the end.
C13_UseHttp ==
  /\ [](hook.use = "useHttp" => hook.client = 1 /\ hook.made = 1)
  /\ [][hook.use = "useHttp" =>
          /\ (\E tok \in DOMAIN cancelReason' :
                /\ tok \notin DOMAIN cancelReason
                /\ cancelReason'[tok] = MsgDestroyed)
               => hook.phase = "mounted" /\ hook'.phase = "unmounted"
          /\ (hook.phase = "mounted" /\ hook'.phase = "unmounted")
               => /\ lastOp'.name = "dispose" /\ lastOp'.c = hook.client
                  /\ \A k \in DOMAIN requestMap[hook.client] :
                       requestMap[hook.client][k] \in DOMAIN cancelReason']_vars
  /\ (hook.use = "useHttp" /\ hook.phase = "unmounted")
       ~> (hook.use = "useHttp" /\ requestMap[hook.client] = EmptyMap)

\* the component was removed while a registered request was in flight: the
\* request was cancelled with the message of the hook, has rejected, and
\* the registry is empty
C13_Witness ==
  /\ hook.use = "useHttp" /\ hook.phase = "unmounted"
  /\ Len(requests[1]) > 0
  /\ requests[1][1].pc = "rejected"
  /\ Token(1, 1) \in DOMAIN cancelReason
  /\ cancelReason[Token(1, 1)] = MsgDestroyed
  /\ lastOp.name = "rejected" /\ lastOp.value = CancellationError
  /\ requestMap[1] = EmptyMap

\* C12: with immediately = true the hook has called its request callback
\* by itself exactly once whenever the mounted component is at rest, and no
\* request was cancelled by the hook while the component is mounted.
C12_AutoOnce ==
  (hook.use = "useApi" /\ hook.immediately /\ hook.phase = "mounted"
     /\ hook.pc = "idle") =>
    /\ hook.auto = 1
    /\ \A tok \in DOMAIN cancelReason : cancelReason[tok] # MsgDestroyed

\* C16: a call of the fifth element of the result of useApi cancels the
\* source of every request registered in the client of the hook.
C16_Cancel ==
  [][(hook.use = "useApi" /\ lastOp'.name = "cancel5") =>
       \A k \in DOMAIN requestMap[hook.client] :
         requestMap[hook.client][k] \in DOMAIN cancelReason']_vars

\* C17: while the component is mounted, loading is true whenever a request
\* made through the callback is outstanding, and data and error are not
\* both set when none is.
C17_Loading ==
  (hook.use = "useApi" /\ hook.phase = "mounted") =>
    IF \E i \in 1..Len(requests[hook.client]) :
         Outstanding(requests[hook.client][i])
    THEN hook.loading
    ELSE hook.data = Null \/ hook.err = Null

\* C18: once the queued state updates have been applied, the string that
\* the setter stored last under the key is the state of the hook.
C18_Stored ==
  (ls.phase = "mounted" /\ ls.writer = "setItem" /\ ls.queue = <<>>) =>
    ls.item.present /\ ls.item.s = ls.value

====
